---- MODULE Spec2Model ----
(***************************************************************************)
(* Address reconciliation engine of src/app.py: clean_address,             *)
(* flexible_address_match and process_files (first definition, lines       *)
(* 10-363).                                                                *)
(*                                                                         *)
(* Text is a sequence of characters.  A character is a one-element token:  *)
(*   "a" "b" ...   lower-case letters and digits (\w)                      *)
(*   "A" "Y"       upper-case letters, lower() gives "a" "y"               *)
(*   "a^"          a precomposed letter with a tone mark, NFD = a + ^      *)
(*   "^"           a combining mark on its own (category Mn)               *)
(*   " " "tab"     white space                  (\s)                       *)
(*   ","           the comma                                               *)
(*   "-" "."       any other punctuation                                   *)
(***************************************************************************)
EXTENDS Integers, Sequences, FiniteSets, TLC

VARIABLES
    normalizer,   \* a call sequence clean_address(x), clean_address(clean_address(x))
    scorer,       \* a call sequence flexible_address_match(a, b, t1), then (a, b, t2)
    forms_df,     \* the submission table, a sequence of rows
    ups_df,       \* the system-of-record table, a sequence of rows
    pc,           \* where process_files is: "idle", "start", "loop", "done", or left by
                  \* an exception: "crashed" (TypeError), "schema_error" (KeyError)
    idx,          \* the index of the submission row the main loop is at
    matched_rows,
    unmatched_rows,
    upload_template_rows,
    processed_form_indices,
    pickup_addrs, \* the pickup records of the split row run last
    iteration     \* the iteration just run: its row, its branch, the type codes it searched

pureVars == <<normalizer, scorer>>

passVars == <<forms_df, ups_df, pc, idx, matched_rows, unmatched_rows, upload_template_rows,
              processed_form_indices, pickup_addrs, iteration>>

vars == <<normalizer, scorer, forms_df, ups_df, pc, idx, matched_rows, unmatched_rows,
          upload_template_rows, processed_form_indices, pickup_addrs, iteration>>

(***************************************************************************)
(* Bounds of the model                                                     *)
(***************************************************************************)

\* longest raw text given to clean_address
MaxRawLen == 4

\* longest address text given to flexible_address_match
MaxAddrLen == 3

\* most rows of the submission table
MaxForms == 1

\* most rows of the system-of-record table
MaxUps == 4

(***************************************************************************)
(* Program constants                                                       *)
(***************************************************************************)

\* threshold=0.65, in hundredths
DefaultThreshold == 65

\* ratio() >= 0.7 of the comma components, in hundredths
PartRatioPct == 70

\* len(common_words) / min_len >= 0.7, in hundredths
WordOverlapPct == 70

\* if pickup_num > 3: pickup_num = 3
MaxPickups == 3

(***************************************************************************)
(* Generic sequence helpers                                                *)
(***************************************************************************)

\* The subsequence of s at the indices in K, in order.
SelectIdx(s, K) ==
    LET F[i \in 0..Len(s)] ==
            IF i = 0 THEN <<>>
            ELSE IF i \in K THEN Append(F[i - 1], s[i]) ELSE F[i - 1]
    IN  F[Len(s)]

MapSeq(s, Op(_)) == [i \in 1..Len(s) |-> Op(s[i])]

RECURSIVE Flatten(_)
Flatten(ss) == IF ss = <<>> THEN <<>> ELSE Head(ss) \o Flatten(Tail(ss))

SetOfSeq(s) == {s[i] : i \in 1..Len(s)}

Min2(x, y) == IF x <= y THEN x ELSE y

(***************************************************************************)
(* Character classes (unicodedata, str.lower, the regex classes \w and \s) *)
(***************************************************************************)

IsSpace(c) == c \in {" ", "tab"}

Letters == {"a", "b", "c", "e", "n", "o", "s", "t", "w", "y", "A", "Y", "a^"}

Digits == {"0", "1", "2", "3", "4", "5", "6", "7", "8", "9"}

\* the regex class \w
IsWordChar(c) == c \in Letters \cup Digits

IsMn(c) == c = "^"

\* unicodedata.normalize('NFD', c) of one character
NFD(c) == IF c = "a^" THEN <<"a", "^">> ELSE <<c>>

\* str.lower of one character
LowerChar(c) == IF c = "A" THEN "a" ELSE IF c = "Y" THEN "y" ELSE c

(***************************************************************************)
(* remove_tones, clean_address                                             *)
(***************************************************************************)

\* A cell value is a string [str |-> <<chars>>], an integer [int |-> n], a float with
\* an integral value [flt |-> n] (a numeric column that holds an empty cell), or NaN.
IsStr(v) == "str" \in DOMAIN v

IsInt(v) == "int" \in DOMAIN v

IsFlt(v) == "flt" \in DOMAIN v

NaN == [nan |-> TRUE]

Str(s) == [str |-> s]

IntCell(n) == [int |-> n]

FloatCell(n) == [flt |-> n]

\* NFD, then drop the characters of category Mn
StripMarks(s) ==
    LET d == Flatten(MapSeq(s, NFD))
    IN  SelectIdx(d, {i \in 1..Len(d) : ~IsMn(d[i])})

\* remove_tones(text): a non-string is returned as it is
remove_tones(text) == IF ~IsStr(text) THEN text ELSE Str(StripMarks(text.str))

\* re.sub(r'[^\w\s,]', ' ', addr)
PunctToSpace(c) == IF IsWordChar(c) \/ IsSpace(c) \/ c = "," THEN c ELSE " "

\* re.sub(r'\s+', ' ', addr): every maximal run of white space becomes one ' '
CollapseSpaces(s) ==
    LET t == [i \in 1..Len(s) |-> IF IsSpace(s[i]) THEN " " ELSE s[i]]
    IN  SelectIdx(t, {i \in 1..Len(s) : ~(IsSpace(s[i]) /\ i > 1 /\ IsSpace(s[i - 1]))})

\* str.strip()
Strip(s) ==
    SelectIdx(s, {i \in 1..Len(s) : /\ \E j \in 1..i : ~IsSpace(s[j])
                                    /\ \E j \in i..Len(s) : ~IsSpace(s[j])})

\* re.sub(r',\s+', ',', addr): the white space that directly follows a comma goes
SubCommaSpace(s) ==
    SelectIdx(s, {i \in 1..Len(s) :
        ~(/\ IsSpace(s[i])
          /\ \E j \in 1..(i - 1) : s[j] = "," /\ \A k \in (j + 1)..i : IsSpace(s[k]))})

\* re.sub(r'\s+,', ',', addr): the white space that directly precedes a comma goes
SubSpaceComma(s) ==
    SelectIdx(s, {i \in 1..Len(s) :
        ~(/\ IsSpace(s[i])
          /\ \E j \in (i + 1)..Len(s) : s[j] = "," /\ \A k \in i..(j - 1) : IsSpace(s[k]))})

\* CleanStr with the punctuation replaced after the white space is collapsed
CleanStr_PunctLast(s) ==
    SubSpaceComma(SubCommaSpace(MapSeq(Strip(CollapseSpaces(
        MapSeq(remove_tones(Str(s)).str, LowerChar))), PunctToSpace)))

\* lines 21-28 of clean_address, on the characters of a string
CleanStr(s) ==
    SubSpaceComma(SubCommaSpace(Strip(CollapseSpaces(
        MapSeq(MapSeq(remove_tones(Str(s)).str, LowerChar), PunctToSpace)))))

\* clean_address(addr): the empty string for a non-string
clean_address(addr) == IF ~IsStr(addr) THEN <<>> ELSE CleanStr(addr.str)

(***************************************************************************)
(* difflib.SequenceMatcher(None, a, b).ratio()   (no junk; autojunk only   *)
(* acts on a second string of 200 or more characters)                      *)
(***************************************************************************)

\* length of the common run of a from i and b from j
RECURSIVE RunLen(_, _, _, _)
RunLen(a, b, i, j) ==
    IF i > Len(a) \/ j > Len(b) \/ a[i] # b[j] THEN 0
    ELSE 1 + RunLen(a, b, i + 1, j + 1)

\* find_longest_match: the longest block, earliest in a, then earliest in b
find_longest_match(a, b) ==
    LET runs == {RunLen(a, b, i, j) : i \in 1..Len(a), j \in 1..Len(b)}
        k    == CHOOSE m \in runs \cup {0} : \A n \in runs : n <= m
        i0   == CHOOSE i \in 1..Len(a) :
                    /\ \E j \in 1..Len(b) : RunLen(a, b, i, j) = k
                    /\ \A i2 \in 1..(i - 1) : \A j \in 1..Len(b) : RunLen(a, b, i2, j) # k
        j0   == CHOOSE j \in 1..Len(b) :
                    /\ RunLen(a, b, i0, j) = k
                    /\ \A j2 \in 1..(j - 1) : RunLen(a, b, i0, j2) # k
    IN  IF k = 0 THEN [i |-> 1, j |-> 1, k |-> 0] ELSE [i |-> i0, j |-> j0, k |-> k]

\* sum of the sizes of get_matching_blocks()
RECURSIVE MatchingSize(_, _)
MatchingSize(a, b) ==
    IF a = <<>> \/ b = <<>> THEN 0
    ELSE LET m == find_longest_match(a, b)
         IN  IF m.k = 0 THEN 0
             ELSE m.k + MatchingSize(SubSeq(a, 1, m.i - 1), SubSeq(b, 1, m.j - 1))
                      + MatchingSize(SubSeq(a, m.i + m.k, Len(a)),
                                     SubSeq(b, m.j + m.k, Len(b)))

\* RatioAtLeast with the comparison turned round
RatioAtMost(a, b, pct) ==
    IF Len(a) + Len(b) = 0 THEN pct >= 100
    ELSE 200 * MatchingSize(a, b) <= pct * (Len(a) + Len(b))

\* ratio() >= pct / 100, where ratio() = 2.0 * matches / (len(a) + len(b)), 1.0 if both empty
RatioAtLeast(a, b, pct) ==
    IF Len(a) + Len(b) = 0 THEN pct <= 100
    ELSE 200 * MatchingSize(a, b) >= pct * (Len(a) + Len(b))

(***************************************************************************)
(* flexible_address_match                                                  *)
(***************************************************************************)

\* a1 in a2
IsSubstring(a1, a2) ==
    \E i \in 0..(Len(a2) - Len(a1)) : SubSeq(a2, i + 1, i + Len(a1)) = a1

\* s.split(','): the pieces between commas, empty pieces included
RECURSIVE SplitComma(_)
SplitComma(s) ==
    IF \A i \in 1..Len(s) : s[i] # "," THEN <<s>>
    ELSE LET c == CHOOSE i \in 1..Len(s) : s[i] = "," /\ \A j \in 1..(i - 1) : s[j] # ","
         IN  <<SubSeq(s, 1, c - 1)>> \o SplitComma(SubSeq(s, c + 1, Len(s)))

\* [p.strip() for p in a.split(',') if p.strip()]
Parts(a) ==
    LET ps == MapSeq(SplitComma(a), Strip)
    IN  SelectIdx(ps, {i \in 1..Len(ps) : ps[i] # <<>>})

\* ' '.join(parts)
RECURSIVE JoinSpace(_)
JoinSpace(ps) ==
    IF ps = <<>> THEN <<>>
    ELSE IF Len(ps) = 1 THEN ps[1]
    ELSE ps[1] \o <<" ">> \o JoinSpace(Tail(ps))

\* set(s.split()): the maximal runs of non-space characters
Words(s) ==
    {SubSeq(s, p[1], p[2]) : p \in
        {q \in (1..Len(s)) \X (1..Len(s)) :
            /\ q[1] <= q[2]
            /\ \A k \in q[1]..q[2] : ~IsSpace(s[k])
            /\ q[1] = 1 \/ IsSpace(s[q[1] - 1])
            /\ q[2] = Len(s) \/ IsSpace(s[q[2] + 1])}}

\* every part of ps has a part of qs with ratio >= 0.7   (lines 53-54, 56-57)
AllPartsMatch(ps, qs) ==
    \A i \in 1..Len(ps) : \E j \in 1..Len(qs) : RatioAtLeast(ps[i], qs[j], PartRatioPct)

\* the match on two cleaned, non-empty strings; threshold in hundredths
MatchCleaned(a1, a2, threshold) ==
    LET a1_parts == Parts(a1)
        a2_parts == Parts(a2)
        combined_a1 == IF a1_parts # <<>> THEN JoinSpace(a1_parts) ELSE a1
        combined_a2 == IF a2_parts # <<>> THEN JoinSpace(a2_parts) ELSE a2
        words1 == Words(combined_a1)
        words2 == Words(combined_a2)
        common_words == words1 \cap words2
        min_len == Min2(Cardinality(words1), Cardinality(words2))
    IN  \/ a1 = a2
        \/ IsSubstring(a1, a2) \/ IsSubstring(a2, a1)
        \/ /\ a1_parts # <<>> /\ a2_parts # <<>>
           /\ AllPartsMatch(a1_parts, a2_parts) \/ AllPartsMatch(a2_parts, a1_parts)
        \/ RatioAtLeast(combined_a1, combined_a2, threshold)
        \/ /\ words1 # {} /\ words2 # {}
           /\ \/ words1 \subseteq words2
              \/ words2 \subseteq words1
              \/ 100 * Cardinality(common_words) >= WordOverlapPct * min_len

\* flexible_address_match with the character ratio of the cleaned strings as its only signal
flexible_address_match_RatioOnly(addr1, addr2, threshold) ==
    LET a1 == clean_address(addr1)
        a2 == clean_address(addr2)
    IN  IF a1 = <<>> \/ a2 = <<>> THEN FALSE ELSE RatioAtLeast(a1, a2, threshold)

flexible_address_match(addr1, addr2, threshold) ==
    LET a1 == clean_address(addr1)
        a2 == clean_address(addr2)
    IN  IF a1 = <<>> \/ a2 = <<>> THEN FALSE ELSE MatchCleaned(a1, a2, threshold)

(***************************************************************************)
(* Cell values as process_files reads them                                 *)
(***************************************************************************)

Min(S) == CHOOSE m \in S : \A n \in S : m <= n

DigitChar == <<"0", "1", "2", "3", "4", "5", "6", "7", "8", "9">>

DigitVal(c) == (CHOOSE d \in 1..10 : DigitChar[d] = c) - 1

RECURSIVE Decimal(_)
Decimal(n) ==
    IF n < 0 THEN <<"-">> \o Decimal(0 - n)
    ELSE IF n < 10 THEN <<DigitChar[n + 1]>>
    ELSE Decimal(n \div 10) \o <<DigitChar[(n % 10) + 1]>>

\* str(v), and v in an f-string
StrOf(v) ==
    IF IsStr(v) THEN v.str
    ELSE IF IsInt(v) THEN Decimal(v.int)
    ELSE IF IsFlt(v) THEN Decimal(v.flt) \o <<".", "0">>
    ELSE <<"n", "a", "n">>

\* bool(v): NaN is true, the empty string and 0 are false
Truthy(v) ==
    IF IsStr(v) THEN v.str # <<>>
    ELSE IF IsInt(v) THEN v.int # 0
    ELSE IF IsFlt(v) THEN v.flt # 0
    ELSE TRUE

RECURSIVE DecimalValue(_)
DecimalValue(s) ==
    IF s = <<>> THEN 0 ELSE 10 * DecimalValue(SubSeq(s, 1, Len(s) - 1)) + DigitVal(s[Len(s)])

\* int(v): ok is FALSE where int() raises (NaN, text that is no decimal numeral)
IntOf(v) ==
    IF IsInt(v) THEN [ok |-> TRUE, val |-> v.int]
    ELSE IF IsFlt(v) THEN [ok |-> TRUE, val |-> v.flt]
    ELSE IF ~IsStr(v) THEN [ok |-> FALSE, val |-> 0]
    ELSE LET s == Strip(v.str)
             neg == s # <<>> /\ s[1] = "-"
             d == IF neg THEN Tail(s) ELSE s
         IN  IF d # <<>> /\ \A i \in 1..Len(d) : d[i] \in Digits
             THEN [ok |-> TRUE, val |-> IF neg THEN 0 - DecimalValue(d) ELSE DecimalValue(d)]
             ELSE [ok |-> FALSE, val |-> 0]

\* .astype(str).str.lower().str.strip()
AccNorm(v) == Str(Strip(MapSeq(StrOf(v), LowerChar)))

\* the cell of a column the table does not have ('Account Number_norm' before lines
\* 91-92 add it; a column missing from the workbook)
NoColumn == [absent |-> TRUE]

\* col in table.columns
HasColumn(table, col) == \A i \in 1..Len(table) : table[i][col] # NoColumn

\* str(form_row.get("Is Your New Billing Address the Same ...", "")).strip().lower()
is_same_billing(form_row) == MapSeq(Strip(StrOf(form_row.same)), LowerChar)

Yes == <<"y", "e", "s">>

T01 == Str(<<"0", "1">>)
T02 == Str(<<"0", "2">>)
T03 == Str(<<"0", "3">>)
T13 == Str(<<"1", "3">>)

(***************************************************************************)
(* process_files: the pieces of one iteration                              *)
(***************************************************************************)

\* f"{l1}, {l2}" and, if l3 is true, f", {l3}"
CombinedForm(b) ==
    StrOf(b.l1) \o <<",", " ">> \o StrOf(b.l2)
        \o (IF Truthy(b.l3) THEN <<",", " ">> \o StrOf(b.l3) ELSE <<>>)

\* f"{ups_addr1}" and, if ups_addr2 is true, f", {ups_addr2}"
CombinedUps(u) ==
    StrOf(u.line1) \o (IF Truthy(u.line2) THEN <<",", " ">> \o StrOf(u.line2) ELSE <<>>)

\* ups_acc_df without the grouping: every row of the table
ups_acc_df_WholeTable(acc_norm) == 1..Len(ups_df)

\* ups_grouped.get_group(acc_norm): the rows of the account, as their positions in ups_df
ups_acc_df(acc_norm) == {i \in 1..Len(ups_df) : ups_df[i].acc_norm = acc_norm}

\* ups_pickup_count counting every row of the account
ups_pickup_count_AllTypes(acc_norm) == Cardinality(ups_acc_df(acc_norm))

\* (ups_acc_df['Address Type'] == '02').sum()
ups_pickup_count(acc_norm) == Cardinality({i \in ups_acc_df(acc_norm) : ups_df[i].type = T02})

\* check_address_in_ups without the test of the type code
check_address_in_ups_AnyType(acc_norm, combined_form_addr, addr_type_code) ==
    LET hits == {i \in ups_acc_df(acc_norm) :
                    flexible_address_match(Str(combined_form_addr),
                                           Str(CombinedUps(ups_df[i])), DefaultThreshold)}
    IN  IF hits = {} THEN 0 ELSE Min(hits)

\* the first row of the account with the type code whose address matches; 0 for None
check_address_in_ups(acc_norm, combined_form_addr, addr_type_code) ==
    LET hits == {i \in ups_acc_df(acc_norm) :
                    /\ ups_df[i].type = addr_type_code
                    /\ flexible_address_match(Str(combined_form_addr),
                                              Str(CombinedUps(ups_df[i])), DefaultThreshold)}
    IN  IF hits = {} THEN 0 ELSE Min(hits)

Max(S) == CHOOSE m \in S : \A n \in S : n <= m

\* UnifiedMatch without the test of the type code
UnifiedMatch_AnyType(acc_norm, combined_form) ==
    LET hits == {i \in ups_acc_df(acc_norm) :
                    flexible_address_match(Str(combined_form),
                                           Str(CombinedUps(ups_df[i])), DefaultThreshold)}
    IN  IF hits = {} THEN 0 ELSE Min(hits)

\* UnifiedMatch without the break: the last matching row of type 01 is kept
UnifiedMatch_Last(acc_norm, combined_form) ==
    LET hits == {i \in ups_acc_df(acc_norm) :
                    /\ ups_df[i].type = T01
                    /\ flexible_address_match(Str(combined_form),
                                              Str(CombinedUps(ups_df[i])), DefaultThreshold)}
    IN  IF hits = {} THEN 0 ELSE Max(hits)

\* the loop of the 'yes' branch over the rows of type 01; 0 when matched_in_ups stays False
UnifiedMatch(acc_norm, combined_form) ==
    LET hits == {i \in ups_acc_df(acc_norm) :
                    /\ ups_df[i].type = T01
                    /\ flexible_address_match(Str(combined_form),
                                              Str(CombinedUps(ups_df[i])), DefaultThreshold)}
    IN  IF hits = {} THEN 0 ELSE Min(hits)

\* pickup_num: int() of the field, 0 when int() raises, at most 3
pickup_num(form_row) ==
    LET r == IntOf(form_row.count)
        n == IF r.ok THEN r.val ELSE 0
    IN  IF n > MaxPickups THEN MaxPickups ELSE n

\* pickup_addrs: one record per i in range(1, pickup_num + 1)
PickupAddrs(form_row) ==
    [i \in 1..pickup_num(form_row) |->
        [l1 |-> form_row.pickups[i].l1, l2 |-> form_row.pickups[i].l2,
         l3 |-> form_row.pickups[i].l3, city |-> form_row.pickups[i].city,
         combined |-> CombinedForm(form_row.pickups[i])]]

\* the matches of the pickups, in order (0 for None)
PickupMatches(acc_norm, pus) ==
    [i \in 1..Len(pus) |-> check_address_in_ups(acc_norm, pus[i].combined, T02)]

\* an unmatched row: the submission (by its index) and its 'Unmatched Reason'
Unmatched(i, kind, nforms, nups, text) ==
    [idx |-> i, reason |-> [kind |-> kind, forms |-> nforms, ups |-> nups, text |-> text]]

\* one row of the upload template; idx names the submission it was made for
UploadRow(i, form_row, code, option, system_row, b) ==
    [idx |-> i,
     AC_NUM |-> form_row.acc,
     AC_Address_Type |-> code,
     invoice_option |-> option,
     AC_Name |-> system_row.name,
     Address_Line1 |-> remove_tones(b.l1),
     Address_Line2 |-> remove_tones(b.l2),
     City |-> b.city,
     Postal_Code |-> system_row.postal,
     Address_Line22 |-> remove_tones(b.l3)]

\* the three billing rows, all with the invoice option of the first
BillingRows_OneOption(i, form_row, system_row, b) ==
    <<UploadRow(i, form_row, "1", "1", system_row, b),
      UploadRow(i, form_row, "2", "1", system_row, b),
      UploadRow(i, form_row, "6", "1", system_row, b)>>

\* the three billing rows, codes 1, 2, 6, invoice option same as code
BillingRows(i, form_row, system_row, b) ==
    <<UploadRow(i, form_row, "1", "1", system_row, b),
      UploadRow(i, form_row, "2", "2", system_row, b),
      UploadRow(i, form_row, "6", "6", system_row, b)>>

(***************************************************************************)
(* Idle values of the variables a specification does not use               *)
(***************************************************************************)

ScorerIdle == [pc |-> "idle"]

PassIdle ==
    /\ forms_df = <<>> /\ ups_df = <<>> /\ pc = "idle" /\ idx = 0
    /\ matched_rows = <<>> /\ unmatched_rows = <<>> /\ upload_template_rows = <<>>
    /\ processed_form_indices = {} /\ pickup_addrs = <<>>
    /\ iteration = [row |-> 0, branch |-> "none", lookups |-> <<>>]

NormalizerIdle == [pc |-> "idle", x |-> NaN, once |-> <<>>, twice |-> <<>>]

(***************************************************************************)
(* process_files as a state machine: one step per iteration of the loop    *)
(***************************************************************************)

Row == forms_df[idx]

InLoop == pc = "loop" /\ idx \in 1..Len(forms_df)

IsYes(form_row) == is_same_billing(form_row) = Yes

billing_match(form_row) ==
    check_address_in_ups(form_row.acc_norm, CombinedForm(form_row.billing), T03)

delivery_match(form_row) ==
    check_address_in_ups(form_row.acc_norm, CombinedForm(form_row.delivery), T13)

\* the first row of the account: ups_acc_df[...].values[0]
FirstOfAccount(acc_norm) == ups_df[Min(ups_acc_df(acc_norm))]

\* the record of the iteration just run: the row, its branch, the type codes searched
Ran(i, branch, codes) == [row |-> i, branch |-> branch, lookups |-> codes]

\* ups_row["AC_Name"], ups_row["Postal_Code"]: the system-held fields can be read
SystemFields(ups_row) == ups_row.name # NoColumn /\ ups_row.postal # NoColumn

\* lines 86-96: the result lists, the normalized account columns, the grouping
Start ==
    /\ pc = "start"
    /\ HasColumn(ups_df, "acc") /\ HasColumn(forms_df, "acc")
    /\ ups_df' = [i \in 1..Len(ups_df) |->
                    [ups_df[i] EXCEPT !.acc_norm = AccNorm(ups_df[i].acc)]]
    /\ forms_df' = [i \in 1..Len(forms_df) |->
                    [forms_df[i] EXCEPT !.acc_norm = AccNorm(forms_df[i].acc)]]
    /\ matched_rows' = <<>> /\ unmatched_rows' = <<>> /\ upload_template_rows' = <<>>
    /\ processed_form_indices' = {}
    /\ pc' = "loop" /\ idx' = 1
    /\ UNCHANGED <<pickup_addrs, iteration, pureVars>>

\* lines 91-92 with no column 'Account Number': ups_df['Account Number'] raises KeyError,
\* or, after line 91 has added its column to ups_df, forms_df['Account Number'] does
StartKeyError ==
    /\ pc = "start"
    /\ ~HasColumn(ups_df, "acc") \/ ~HasColumn(forms_df, "acc")
    /\ ups_df' = IF HasColumn(ups_df, "acc")
                  THEN [i \in 1..Len(ups_df) |->
                           [ups_df[i] EXCEPT !.acc_norm = AccNorm(ups_df[i].acc)]]
                  ELSE ups_df
    /\ matched_rows' = <<>> /\ unmatched_rows' = <<>> /\ upload_template_rows' = <<>>
    /\ pc' = "schema_error"
    /\ UNCHANGED <<forms_df, idx, processed_form_indices, pickup_addrs, iteration, pureVars>>

\* lines 102-110: the account is not in the system table
AccountNotFound ==
    /\ InLoop
    /\ ups_acc_df(Row.acc_norm) = {}
    /\ unmatched_rows' = Append(unmatched_rows, Unmatched(idx, "account_not_found", 0, 0, <<>>))
    /\ iteration' = Ran(idx, "not_found", <<>>)
    /\ idx' = idx + 1
    /\ UNCHANGED <<forms_df, ups_df, pc, matched_rows, upload_template_rows,
                   processed_form_indices, pickup_addrs, pureVars>>

\* UnifiedMatched without processed_form_indices.add(idx)
UnifiedMatched_NotProcessed ==
    /\ InLoop
    /\ ups_acc_df(Row.acc_norm) # {}
    /\ IsYes(Row)
    /\ \E m \in {UnifiedMatch(Row.acc_norm, CombinedForm(Row.addr))} :
           /\ m # 0
           /\ SystemFields(ups_df[m])
           /\ matched_rows' = Append(matched_rows,
                  [idx |-> idx, branch |-> "unified", ups_row |-> m,
                   billing |-> 0, delivery |-> 0, pickups |-> <<>>])
           /\ upload_template_rows' =
                  upload_template_rows \o BillingRows(idx, Row, ups_df[m], Row.addr)
    /\ iteration' = Ran(idx, "unified", <<T01>>)
    /\ idx' = idx + 1
    /\ UNCHANGED <<forms_df, ups_df, pc, unmatched_rows, processed_form_indices,
                   pickup_addrs, pureVars>>

\* lines 115-178: 'yes', and a row of type 01 matches
UnifiedMatched ==
    /\ InLoop
    /\ ups_acc_df(Row.acc_norm) # {}
    /\ IsYes(Row)
    /\ \E m \in {UnifiedMatch(Row.acc_norm, CombinedForm(Row.addr))} :
           /\ m # 0
           /\ SystemFields(ups_df[m])
           /\ matched_rows' = Append(matched_rows,
                  [idx |-> idx, branch |-> "unified", ups_row |-> m,
                   billing |-> 0, delivery |-> 0, pickups |-> <<>>])
           /\ upload_template_rows' =
                  upload_template_rows \o BillingRows(idx, Row, ups_df[m], Row.addr)
    /\ processed_form_indices' = processed_form_indices \cup {idx}
    /\ iteration' = Ran(idx, "unified", <<T01>>)
    /\ idx' = idx + 1
    /\ UNCHANGED <<forms_df, ups_df, pc, unmatched_rows, pickup_addrs, pureVars>>

\* lines 115-168: 'yes', a row of type 01 matches, the matched row is appended (line
\* 159), and ups_row_for_template["AC_Name"] (or "Postal_Code") raises KeyError
UnifiedKeyError ==
    /\ InLoop
    /\ ups_acc_df(Row.acc_norm) # {}
    /\ IsYes(Row)
    /\ \E m \in {UnifiedMatch(Row.acc_norm, CombinedForm(Row.addr))} :
           /\ m # 0
           /\ ~SystemFields(ups_df[m])
           /\ matched_rows' = Append(matched_rows,
                  [idx |-> idx, branch |-> "unified", ups_row |-> m,
                   billing |-> 0, delivery |-> 0, pickups |-> <<>>])
    /\ processed_form_indices' = processed_form_indices \cup {idx}
    /\ iteration' = Ran(idx, "unified", <<T01>>)
    /\ pc' = "schema_error"
    /\ UNCHANGED <<forms_df, ups_df, idx, unmatched_rows, upload_template_rows,
                   pickup_addrs, pureVars>>

\* lines 115-144, 179-185: 'yes', and no row of type 01 matches
UnifiedUnmatched ==
    /\ InLoop
    /\ ups_acc_df(Row.acc_norm) # {}
    /\ IsYes(Row)
    /\ UnifiedMatch(Row.acc_norm, CombinedForm(Row.addr)) = 0
    /\ unmatched_rows' = Append(unmatched_rows, Unmatched(idx, "billing_01_not_matched", 0, 0, <<>>))
    /\ iteration' = Ran(idx, "unified", <<T01>>)
    /\ idx' = idx + 1
    /\ UNCHANGED <<forms_df, ups_df, pc, matched_rows, upload_template_rows,
                   processed_form_indices, pickup_addrs, pureVars>>

\* lines 187-248: not 'yes', and the number of pickup records is not that of the 02 rows
SplitCountMismatch ==
    /\ InLoop
    /\ ups_acc_df(Row.acc_norm) # {}
    /\ ~IsYes(Row)
    /\ \E pus \in {PickupAddrs(Row)} :
           /\ Len(pus) # ups_pickup_count(Row.acc_norm)
           /\ pickup_addrs' = pus
           /\ unmatched_rows' = Append(unmatched_rows,
                  Unmatched(idx, "pickup_count_mismatch", Len(pus),
                            ups_pickup_count(Row.acc_norm), <<>>))
    /\ iteration' = Ran(idx, "split", <<T03, T13>>)
    /\ idx' = idx + 1
    /\ UNCHANGED <<forms_df, ups_df, pc, matched_rows, upload_template_rows,
                   processed_form_indices, pureVars>>

\* lines 187-266: not 'yes', the counts agree, and some pickup matches no row of type 02
SplitPickupUnmatched ==
    /\ InLoop
    /\ ups_acc_df(Row.acc_norm) # {}
    /\ ~IsYes(Row)
    /\ \E pus \in {PickupAddrs(Row)} :
           /\ Len(pus) = ups_pickup_count(Row.acc_norm)
           /\ \E ms \in {PickupMatches(Row.acc_norm, pus)} :
                 /\ \E i \in 1..Len(pus) : ms[i] = 0
                 /\ \E p \in {Min({i \in 1..Len(pus) : ms[i] = 0})} :
                       /\ unmatched_rows' = Append(unmatched_rows,
                              Unmatched(idx, "pickup_not_matched", 0, 0,
                                        StrOf(pus[p].l1) \o <<",", " ">> \o StrOf(pus[p].l2)))
                       /\ iteration' =
                              Ran(idx, "split", <<T03, T13>> \o [k \in 1..p |-> T02])
           /\ pickup_addrs' = pus
    /\ idx' = idx + 1
    /\ UNCHANGED <<forms_df, ups_df, pc, matched_rows, upload_template_rows,
                   processed_form_indices, pureVars>>

\* lines 187-284: not 'yes', counts agree, every pickup matches, but billing_match or
\* delivery_match is None: billing_match["Address Line 1"] raises TypeError, which
\* leaves process_files (main() reports it, lines 539-541) and nothing is returned
SplitCrash ==
    /\ InLoop
    /\ ups_acc_df(Row.acc_norm) # {}
    /\ ~IsYes(Row)
    /\ \E pus \in {PickupAddrs(Row)} :
           /\ Len(pus) = ups_pickup_count(Row.acc_norm)
           /\ \E ms \in {PickupMatches(Row.acc_norm, pus)} : \A i \in 1..Len(pus) : ms[i] # 0
           /\ billing_match(Row) = 0 \/ delivery_match(Row) = 0
           /\ pickup_addrs' = pus
           /\ iteration' = Ran(idx, "split", <<T03, T13>> \o [k \in 1..Len(pus) |-> T02])
    /\ processed_form_indices' = processed_form_indices \cup {idx}
    /\ pc' = "crashed"
    /\ UNCHANGED <<forms_df, ups_df, idx, matched_rows, unmatched_rows,
                   upload_template_rows, pureVars>>

\* lines 187-347: not 'yes', counts agree, every pickup, billing and delivery match
SplitMatched ==
    /\ InLoop
    /\ ups_acc_df(Row.acc_norm) # {}
    /\ ~IsYes(Row)
    /\ \E pus \in {PickupAddrs(Row)} :
           /\ Len(pus) = ups_pickup_count(Row.acc_norm)
           /\ \E ms \in {PickupMatches(Row.acc_norm, pus)} :
              \E bm \in {billing_match(Row)} :
              \E dm \in {delivery_match(Row)} :
              \E first \in {FirstOfAccount(Row.acc_norm)} :
                 /\ \A i \in 1..Len(pus) : ms[i] # 0
                 /\ bm # 0 /\ dm # 0
                 /\ SystemFields(first)
                 /\ matched_rows' = Append(matched_rows,
                        [idx |-> idx, branch |-> "split", ups_row |-> 0,
                         billing |-> bm, delivery |-> dm, pickups |-> ms])
                 /\ upload_template_rows' =
                        upload_template_rows
                          \o [k \in 1..Len(pus) |-> UploadRow(idx, Row, "02", "", first, pus[k])]
                          \o BillingRows(idx, Row, first, Row.billing)
                          \o <<UploadRow(idx, Row, "13", "", first, Row.delivery)>>
           /\ pickup_addrs' = pus
           /\ iteration' = Ran(idx, "split", <<T03, T13>> \o [k \in 1..Len(pus) |-> T02])
    /\ processed_form_indices' = processed_form_indices \cup {idx}
    /\ idx' = idx + 1
    /\ UNCHANGED <<forms_df, ups_df, pc, unmatched_rows, pureVars>>

\* lines 187-302: not 'yes', everything matches, the matched row is appended (line 294),
\* and ups_acc_df["AC_Name"] (or "Postal_Code") raises KeyError
SplitKeyError ==
    /\ InLoop
    /\ ups_acc_df(Row.acc_norm) # {}
    /\ ~IsYes(Row)
    /\ \E pus \in {PickupAddrs(Row)} :
           /\ Len(pus) = ups_pickup_count(Row.acc_norm)
           /\ \E ms \in {PickupMatches(Row.acc_norm, pus)} :
              \E bm \in {billing_match(Row)} :
              \E dm \in {delivery_match(Row)} :
                 /\ \A i \in 1..Len(pus) : ms[i] # 0
                 /\ bm # 0 /\ dm # 0
                 /\ ~SystemFields(FirstOfAccount(Row.acc_norm))
                 /\ matched_rows' = Append(matched_rows,
                        [idx |-> idx, branch |-> "split", ups_row |-> 0,
                         billing |-> bm, delivery |-> dm, pickups |-> ms])
           /\ pickup_addrs' = pus
           /\ iteration' = Ran(idx, "split", <<T03, T13>> \o [k \in 1..Len(pus) |-> T02])
    /\ processed_form_indices' = processed_form_indices \cup {idx}
    /\ pc' = "schema_error"
    /\ UNCHANGED <<forms_df, ups_df, idx, unmatched_rows, upload_template_rows, pureVars>>

\* Finish with every row of forms_df appended to the unmatched rows
Finish_AllRows ==
    /\ pc = "loop"
    /\ idx = Len(forms_df) + 1
    /\ unmatched_rows' = unmatched_rows \o
           [k \in 1..Len(forms_df) |-> Unmatched(k, "not_processed", 0, 0, <<>>)]
    /\ pc' = "done"
    /\ UNCHANGED <<forms_df, ups_df, idx, matched_rows, upload_template_rows,
                   processed_form_indices, pickup_addrs, iteration, pureVars>>

\* lines 349-363: every row not in processed_form_indices is appended to the unmatched
\* rows, and the three tables are returned
Finish ==
    /\ pc = "loop"
    /\ idx = Len(forms_df) + 1
    /\ LET rest == SelectIdx([i \in 1..Len(forms_df) |-> i],
                             {i \in 1..Len(forms_df) : i \notin processed_form_indices})
       IN  unmatched_rows' = unmatched_rows \o
               [k \in 1..Len(rest) |-> Unmatched(rest[k], "not_processed", 0, 0, <<>>)]
    /\ pc' = "done"
    /\ UNCHANGED <<forms_df, ups_df, idx, matched_rows, upload_template_rows,
                   processed_form_indices, pickup_addrs, iteration, pureVars>>

Next ==
    \/ Start
    \/ StartKeyError
    \/ AccountNotFound
    \/ UnifiedMatched
    \/ UnifiedKeyError
    \/ UnifiedUnmatched
    \/ SplitCountMismatch
    \/ SplitPickupUnmatched
    \/ SplitCrash
    \/ SplitMatched
    \/ SplitKeyError
    \/ Finish

(***************************************************************************)
(* The input tables of a reconciliation pass                               *)
(***************************************************************************)

\* address blocks of a submission: line 1, line 2, line 3, city
BlockX == [l1 |-> Str(<<"a^", "b">>), l2 |-> Str(<<"c">>), l3 |-> Str(<<>>), city |-> Str(<<"t">>)]

BlockY == [l1 |-> Str(<<"b", "a">>), l2 |-> Str(<<>>), l3 |-> NaN, city |-> Str(<<"s">>)]

\* a submission row
FormRow(acc, same, addr, billing, delivery, count, p1, p2, p3) ==
    [acc |-> acc, acc_norm |-> NoColumn, same |-> same, addr |-> addr, billing |-> billing,
     delivery |-> delivery, count |-> count, pickups |-> <<p1, p2, p3>>]

AccA == Str(<<"A", " ">>)

AccB == Str(<<"b">>)

SameYes == Str(<<"Y", "e", "s", " ">>)

SameNo == Str(<<"n", "o">>)

Split(acc, same, billing, count, p1, p2) ==
    FormRow(acc, same, BlockX, billing, BlockX, count, p1, p2, BlockX)

\* the ways the pickup-count field is filled in
CountCells ==
    {IntCell(0), IntCell(1), IntCell(2), IntCell(5), Str(<<"2">>),
     Str(<<"t", "w", "o">>), Str(<<"a", "b", "c">>)}

FormRows ==
    {FormRow(AccA, SameYes, b, BlockX, BlockX, IntCell(0), BlockX, BlockX, BlockX) :
        b \in {BlockX, BlockY}}
    \cup {Split(AccB, same, BlockX, IntCell(0), BlockX, BlockX) :
        same \in {SameYes, SameNo, Str(<<>>), NaN}}
    \cup {Split(AccA, SameNo, BlockX, c, BlockX, BlockX) : c \in CountCells}
    \cup {Split(AccA, SameNo, BlockX, IntCell(1), BlockY, BlockX),
          Split(AccA, SameNo, BlockY, IntCell(0), BlockX, BlockX),
          Split(AccA, Str(<<>>), BlockX, IntCell(0), BlockX, BlockX)}

\* a system-of-record row
UpsRow(acc, type, line1, line2, name, postal) ==
    [acc |-> acc, acc_norm |-> NoColumn, type |-> type, line1 |-> line1, line2 |-> line2,
     name |-> Str(<<name>>), postal |-> Str(<<postal>>)]

UpsX(type, name, postal) == UpsRow(Str(<<"a">>), type, Str(<<"A", "b">>), Str(<<"c">>), name, postal)

UpsRows ==
    {UpsX(T01, "N1", "P1"), UpsX(T02, "N2", "P2"), UpsX(T03, "N3", "P3"), UpsX(T13, "N4", "P4"),
     UpsRow(Str(<<"a">>), T02, Str(<<"b", "a">>), Str(<<>>), "N5", "P5")}

\* the tables of at most n rows, no row twice
Tables(rows, n) ==
    {t \in UNION {[1..k -> rows] : k \in 0..n} : \A i, j \in 1..Len(t) : t[i] = t[j] => i = j}

\* the two submissions every further family of tables is run with
FormYes == FormRow(AccA, SameYes, BlockX, BlockX, BlockX, IntCell(0), BlockX, BlockX, BlockX)

FormSplit(count, p1, p2) == Split(AccA, SameNo, BlockX, count, p1, p2)

\* account numbers of a numeric column: the submissions hold 12 as an integer or as text,
\* the system table holds an empty account cell, so that pandas reads its 12 as 12.0
Acc12 == <<"1", "2">>

FormRowsNumeric ==
    {FormRow(acc, SameYes, BlockX, BlockX, BlockX, IntCell(0), BlockX, BlockX, BlockX) :
        acc \in {IntCell(12), Str(Acc12), Str(Acc12 \o <<".", "0">>)}}

UpsRowsNumeric ==
    {UpsRow(FloatCell(12), T01, Str(<<"A", "b">>), Str(<<"c">>), "N1", "P1"),
     UpsRow(FloatCell(12), T02, Str(<<"A", "b">>), Str(<<"c">>), "N2", "P2"),
     UpsRow(NaN, T01, Str(<<"A", "b">>), Str(<<"c">>), "N3", "P3")}

\* a float account is read only from a column with an empty cell
CoercedAccounts(t) ==
    (\E i \in 1..Len(t) : IsFlt(t[i].acc)) => (\E j \in 1..Len(t) : t[j].acc = NaN)

\* a system table whose 'Address Type' cells are numbers: pandas reads them as integers
UpsRowsIntType ==
    {UpsX(IntCell(1), "N1", "P1"), UpsX(IntCell(2), "N2", "P2"),
     UpsX(IntCell(3), "N3", "P3"), UpsX(IntCell(13), "N4", "P4")}

\* a system row of account 'a' whose address 'ab' is contained in the address 'ab, c'
UpsLoose(type, name, postal) ==
    UpsRow(Str(<<"a">>), type, Str(<<"a", "b">>), Str(<<>>), name, postal)

\* system tables with several candidates of one account and role for one address
UpsRowsTies ==
    {UpsLoose(T01, "N6", "P6"), UpsX(T01, "N1", "P1"),
     UpsLoose(T03, "N7", "P7"), UpsX(T03, "N3", "P3"),
     UpsX(T13, "N4", "P4")}

FormRowsTies == {FormYes, FormSplit(IntCell(0), BlockX, BlockX)}

FormRowsIntType == {FormYes, FormSplit(IntCell(1), BlockX, BlockX)}

\* a pickup block left empty in the workbook: every cell is read as NaN
BlockNone == [l1 |-> NaN, l2 |-> NaN, l3 |-> NaN, city |-> NaN]

\* split submissions by their pickup blocks: count 2 with one block filled in, count 1
\* with two blocks, count 2 with two different blocks
FormRowsBlocks ==
    {FormRow(AccA, SameNo, BlockX, BlockX, BlockX, IntCell(2), BlockX, BlockNone, BlockNone),
     FormRow(AccA, SameNo, BlockX, BlockX, BlockX, IntCell(1), BlockX, BlockX, BlockNone),
     FormRow(AccA, SameNo, BlockX, BlockX, BlockX, IntCell(2), BlockY, BlockX, BlockNone)}

\* the table without the column col
Drop(table, col) == [i \in 1..Len(table) |-> [table[i] EXCEPT ![col] = NoColumn]]

\* workbooks with a required column missing
SchemaTables ==
    LET forms == Tables({FormYes, FormSplit(IntCell(0), BlockX, BlockX)}, MaxForms)
        ups   == Tables({UpsX(T01, "N1", "P1"), UpsX(T03, "N3", "P3"), UpsX(T13, "N4", "P4")},
                        MaxUps)
    IN  {<<Drop(f, "acc"), u>> : f \in forms, u \in ups}
        \cup {<<f, Drop(u, col)>> : f \in forms, u \in ups, col \in {"acc", "name", "postal"}}

\* the tables process_files is run on are drawn from one family of rows
InputTables ==
    \/ forms_df \in Tables(FormRows, MaxForms) /\ ups_df \in Tables(UpsRows, MaxUps)
    \/ /\ forms_df \in Tables(FormRowsNumeric, MaxForms)
       /\ ups_df \in {t \in Tables(UpsRowsNumeric, MaxUps) : CoercedAccounts(t)}
    \/ /\ forms_df \in Tables(FormRowsIntType, MaxForms)
       /\ ups_df \in Tables(UpsRowsIntType, MaxUps)
    \/ forms_df \in Tables(FormRowsTies, MaxForms) /\ ups_df \in Tables(UpsRowsTies, MaxUps)
    \/ forms_df \in Tables(FormRowsBlocks, MaxForms) /\ ups_df \in Tables(UpsRows, MaxUps)
    \/ \E t \in SchemaTables : forms_df = t[1] /\ ups_df = t[2]

Init ==
    /\ InputTables
    /\ pc = "start"
    /\ idx = 0
    /\ matched_rows = <<>> /\ unmatched_rows = <<>> /\ upload_template_rows = <<>>
    /\ processed_form_indices = {}
    /\ pickup_addrs = <<>>
    /\ iteration = Ran(0, "none", <<>>)
    /\ normalizer = NormalizerIdle
    /\ scorer = ScorerIdle

Spec == Init /\ [][Next]_vars

(***************************************************************************)
(* Vocabulary of the properties                                            *)
(***************************************************************************)

\* the submissions whose iteration has run (to its end, or into the exception)
Handled == 1..iteration.row

MatchedOf(i) == {k \in 1..Len(matched_rows) : matched_rows[k].idx = i}

UnmatchedOf(i) == {k \in 1..Len(unmatched_rows) : unmatched_rows[k].idx = i}

UploadOf(i) == {k \in 1..Len(upload_template_rows) : upload_template_rows[k].idx = i}

ReasonsOf(i) == {unmatched_rows[k].reason.kind : k \in UnmatchedOf(i)}

\* the system rows of the submission's account with the given type code
Candidates(i, code) ==
    {u \in 1..Len(ups_df) : ups_df[u].acc_norm = forms_df[i].acc_norm /\ ups_df[u].type = code}

AccountPresent(i) == \E u \in 1..Len(ups_df) : ups_df[u].acc_norm = forms_df[i].acc_norm

\* some system row of the account and type is a match for the submitted address block
Resolves(i, block, code) ==
    \E u \in Candidates(i, code) :
        flexible_address_match(Str(CombinedForm(block)), Str(CombinedUps(ups_df[u])),
                               DefaultThreshold)

SplitPresent(i) == AccountPresent(i) /\ ~IsYes(forms_df[i])

PickupsResolve(i) ==
    \A p \in 1..Len(PickupAddrs(forms_df[i])) : Resolves(i, forms_df[i].pickups[p], T02)

PickupCountsAgree(i) == Len(PickupAddrs(forms_df[i])) = Cardinality(Candidates(i, T02))

\* the word-number 'two' in the pickup-count field
WordTwo == Str(<<"t", "w", "o">>)

\* a pickup-count value that is neither numeric nor a word-number
Malformed(c) == ~IntOf(c).ok /\ c # WordTwo

(***************************************************************************)
(* C1  Completeness: when process_files returns, matched rows plus         *)
(* unmatched rows are as many as the submissions, and every submission has *)
(* exactly one outcome row.                                                *)
(***************************************************************************)
C1_Completeness ==
    pc = "done" =>
        /\ Len(matched_rows) + Len(unmatched_rows) = Len(forms_df)
        /\ \A i \in 1..Len(forms_df) :
              Cardinality(MatchedOf(i)) + Cardinality(UnmatchedOf(i)) = 1

(***************************************************************************)
(* C2  A data-quality problem on one row never aborts the run: no          *)
(* exception leaves process_files, and a split row whose billing or        *)
(* delivery address matches no system row ends in the unmatched table.     *)
(***************************************************************************)
C2_NeverAborts ==
    /\ pc # "crashed"
    /\ \A i \in Handled :
          (SplitPresent(i) /\ ~(Resolves(i, forms_df[i].billing, T03)
                                /\ Resolves(i, forms_df[i].delivery, T13)))
              => UnmatchedOf(i) # {}

(***************************************************************************)
(* C3  Split branch, account present, pickup counts agree and every pickup *)
(* matches: if billing matches no 03 row or delivery matches no 13 row,    *)
(* the submission is unmatched with a reason naming that role.             *)
(***************************************************************************)
C3_UnresolvedRoleReason ==
    \A i \in Handled :
        (/\ SplitPresent(i) /\ PickupCountsAgree(i) /\ PickupsResolve(i)
         /\ ~(Resolves(i, forms_df[i].billing, T03) /\ Resolves(i, forms_df[i].delivery, T13)))
        => /\ MatchedOf(i) = {}
           /\ ReasonsOf(i) \cap {"billing_not_matched", "delivery_not_matched"} # {}

(***************************************************************************)
(* C4  A submission has a matched row only if every role of its branch     *)
(* resolved: 'yes' - some 01 row of the account matches; split - some 03   *)
(* row matches billing, some 13 row matches delivery, the number of pickup *)
(* records equals the number of 02 rows, and every pickup matches some 02  *)
(* row.                                                                    *)
(***************************************************************************)
C4_MatchedOnlyIfResolved ==
    \A k \in 1..Len(matched_rows) :
        LET i == matched_rows[k].idx
        IN  /\ AccountPresent(i)
            /\ IF IsYes(forms_df[i])
               THEN Resolves(i, forms_df[i].addr, T01)
               ELSE /\ Resolves(i, forms_df[i].billing, T03)
                    /\ Resolves(i, forms_df[i].delivery, T13)
                    /\ PickupCountsAgree(i)
                    /\ PickupsResolve(i)

\* a split submission with a pickup and a unified submission can both be matched
C4_Witness ==
    \E k \in 1..Len(matched_rows) :
        /\ matched_rows[k].branch = "split"
        /\ Len(matched_rows[k].pickups) >= 1
        /\ pc = "done"

(***************************************************************************)
(* C5  Missing-account short-circuit: a submission whose normalized        *)
(* account is in no system row gets an unmatched row with the reason       *)
(* 'account not found', no candidate search is made for it, it gets no     *)
(* matched row and no upload row - whatever its discriminator.             *)
(***************************************************************************)
C5_MissingAccount ==
    \A i \in Handled :
        ~AccountPresent(i) =>
            /\ "account_not_found" \in ReasonsOf(i)
            /\ ReasonsOf(i) \subseteq {"account_not_found", "not_processed"}
            /\ MatchedOf(i) = {}
            /\ UploadOf(i) = {}
            /\ i \notin processed_form_indices
            /\ iteration.row = i => iteration.lookups = <<>>

\* a submission of an absent account whose discriminator is neither yes nor no
C5_Witness ==
    \E i \in Handled :
        /\ ~AccountPresent(i)
        /\ Len(ups_df) > 0
        /\ is_same_billing(forms_df[i]) = <<"n", "a", "n">>
        /\ pc = "done"

(***************************************************************************)
(* C6  Pickup-count consistency: a split submission of a present account   *)
(* whose number of pickup records (the count field, at most 3) differs     *)
(* from the number of 02 rows of the account is unmatched with a           *)
(* pickup-count-mismatch reason carrying both counts, whatever matches;    *)
(* a 'yes' submission never gets that reason.                              *)
(***************************************************************************)
C6_PickupCount ==
    \A i \in Handled :
        /\ (SplitPresent(i) /\ ~PickupCountsAgree(i)) =>
              /\ MatchedOf(i) = {}
              /\ UploadOf(i) = {}
              /\ \E k \in UnmatchedOf(i) :
                    /\ unmatched_rows[k].reason.kind = "pickup_count_mismatch"
                    /\ unmatched_rows[k].reason.forms = Len(PickupAddrs(forms_df[i]))
                    /\ unmatched_rows[k].reason.ups = Cardinality(Candidates(i, T02))
        /\ (IsYes(forms_df[i]) \/ PickupCountsAgree(i)) =>
              "pickup_count_mismatch" \notin ReasonsOf(i)

\* two pickup records against one 02 row, with billing and delivery resolved
C6_Witness ==
    \E i \in Handled :
        /\ SplitPresent(i)
        /\ Len(PickupAddrs(forms_df[i])) = 2
        /\ Cardinality(Candidates(i, T02)) = 1
        /\ Resolves(i, forms_df[i].billing, T03)
        /\ Resolves(i, forms_df[i].delivery, T13)
        /\ pc = "done"

(***************************************************************************)
(* C7  The pickup-count field is accepted as a number and as a word: a     *)
(* split submission with 'two' in the field yields two pickup records, as  *)
(* the number 2 does, and a count above 3 yields three.                    *)
(***************************************************************************)
C7_WordNumbers ==
    (iteration.branch = "split" /\ iteration.row >= 1) =>
        LET c == forms_df[iteration.row].count
        IN  /\ c \in {WordTwo, IntCell(2), Str(<<"2">>)} => Len(pickup_addrs) = 2
            /\ c = IntCell(5) => Len(pickup_addrs) = 3

(***************************************************************************)
(* C8  MalformedCount: a split submission whose pickup-count value is      *)
(* neither numeric nor a word-number is never matched and ends unmatched   *)
(* with a reason of its own.                                               *)
(***************************************************************************)
C8_MalformedCount ==
    \A i \in Handled :
        (SplitPresent(i) /\ Malformed(forms_df[i].count)) =>
            /\ MatchedOf(i) = {}
            /\ pc = "done" => "malformed_count" \in ReasonsOf(i)

\* the account identifier as the comparison is specified: lower case, trimmed, and a
\* trailing '.0' taken off an identifier that is otherwise all digits
NumericLooking(s) ==
    /\ Len(s) > 2
    /\ s[Len(s) - 1] = "." /\ s[Len(s)] = "0"
    /\ \A k \in 1..(Len(s) - 2) : s[k] \in Digits

AccountKey(v) ==
    LET s == Strip(MapSeq(StrOf(v), LowerChar))
    IN  IF NumericLooking(s) THEN SubSeq(s, 1, Len(s) - 2) ELSE s

SameAccount(i, u) == AccountKey(forms_df[i].acc) = AccountKey(ups_df[u].acc)

(***************************************************************************)
(* C11  Account normalization: a submission whose account equals a system  *)
(* row's account up to case, surrounding white space and a trailing '.0'   *)
(* of a numeric-looking identifier ('12345' and '12345.0', 'A100' and      *)
(* ' a100 ') finds that row: it is never reported 'account not found'.     *)
(***************************************************************************)
C11_AccountNormalization ==
    \A i \in Handled :
        (\E u \in 1..Len(ups_df) : SameAccount(i, u)) =>
            "account_not_found" \notin ReasonsOf(i)

\* the address-type code as a 2-character zero-padded string
TypeKey(v) == IF Len(StrOf(v)) = 1 THEN <<"0">> \o StrOf(v) ELSE StrOf(v)

\* the system rows of the submission's account whose padded type code is the given one
PaddedCandidates(i, code) ==
    {u \in 1..Len(ups_df) :
        ups_df[u].acc_norm = forms_df[i].acc_norm /\ TypeKey(ups_df[u].type) = code.str}

IsMatch(block, u) ==
    flexible_address_match(Str(CombinedForm(block)), Str(CombinedUps(ups_df[u])),
                           DefaultThreshold)

(***************************************************************************)
(* C12  Type codes are compared as 2-character zero-padded strings: a      *)
(* system row whose type is the integer 1 is a candidate for role 01, so a *)
(* 'yes' submission whose address matches it is not reported 'billing      *)
(* address (type 01) not matched'; and rows whose type is the integer 2    *)
(* count as pickup rows, so a split submission whose number of pickup      *)
(* records equals their number is not reported a pickup-count mismatch.    *)
(***************************************************************************)
C12_TypeCodesPadded ==
    \A i \in Handled :
        /\ (/\ AccountPresent(i) /\ IsYes(forms_df[i])
            /\ \E u \in PaddedCandidates(i, T01) : IsMatch(forms_df[i].addr, u))
              => "billing_01_not_matched" \notin ReasonsOf(i)
        /\ (/\ SplitPresent(i)
            /\ Len(PickupAddrs(forms_df[i])) = Cardinality(PaddedCandidates(i, T02)))
              => "pickup_count_mismatch" \notin ReasonsOf(i)

\* the first system row of the account and type code that matches the address block
FirstCandidate(i, block, code) ==
    Min({u \in Candidates(i, code) : IsMatch(block, u)})

\* the cleaned addresses of the block and of the system row are equal
ExactMatch(block, u) ==
    clean_address(Str(CombinedForm(block))) = clean_address(Str(CombinedUps(ups_df[u])))

(***************************************************************************)
(* C13  First match wins: the system row recorded for a matched address    *)
(* (unified, billing, delivery, each pickup) is the first row of the       *)
(* account and role, in the order of the system table, that matches the    *)
(* address; a later candidate is never recorded, however well it matches.  *)
(***************************************************************************)
C13_FirstMatchWins ==
    \A k \in 1..Len(matched_rows) :
        LET m == matched_rows[k]
            f == forms_df[m.idx]
        IN  IF m.branch = "unified"
            THEN m.ups_row = FirstCandidate(m.idx, f.addr, T01)
            ELSE /\ m.billing = FirstCandidate(m.idx, f.billing, T03)
                 /\ m.delivery = FirstCandidate(m.idx, f.delivery, T13)
                 /\ \A p \in 1..Len(m.pickups) :
                        m.pickups[p] = FirstCandidate(m.idx, f.pickups[p], T02)

\* a unified or a split submission is matched to a row that merely contains the
\* address, with a row of the same role that equals it later in the table
C13_Witness ==
    /\ pc = "done"
    /\ \E k \in 1..Len(matched_rows) :
          LET m == matched_rows[k]
              f == forms_df[m.idx]
          IN  \/ /\ m.branch = "unified"
                 /\ ~ExactMatch(f.addr, m.ups_row)
                 /\ \E u \in Candidates(m.idx, T01) : u > m.ups_row /\ ExactMatch(f.addr, u)
              \/ /\ m.branch = "split"
                 /\ ~ExactMatch(f.billing, m.billing)
                 /\ \E u \in Candidates(m.idx, T03) : u > m.billing /\ ExactMatch(f.billing, u)

\* the upload rows made for submission i, in the order of the upload template
UploadsOf(i) == SelectIdx(upload_template_rows, UploadOf(i))

\* the upload rows of submission i with an invoice-option code (the billing rows)
InvoiceRows(i) ==
    SelectIdx(UploadsOf(i), {k \in 1..Len(UploadsOf(i)) : UploadsOf(i)[k].invoice_option # ""})

\* the upload rows of submission i with the address-type code and no invoice option
PlainRows(i, code) ==
    SelectIdx(UploadsOf(i), {k \in 1..Len(UploadsOf(i)) :
        UploadsOf(i)[k].invoice_option = "" /\ UploadsOf(i)[k].AC_Address_Type = code})

AddressFields(r) == <<r.Address_Line1, r.Address_Line2, r.Address_Line22, r.City>>

\* the address fields an upload row takes from a submitted block
BlockFields(b) == <<remove_tones(b.l1), remove_tones(b.l2), remove_tones(b.l3), b.city>>

(***************************************************************************)
(* C14  Upload projection shape: a matched unified submission has exactly  *)
(* 3 upload rows, a matched split submission with n pickups exactly n + 4. *)
(* The billing (or unified) address gives 3 rows with the same address     *)
(* fields and pairwise distinct invoice-option codes; the delivery address *)
(* gives 1 row without invoice option; each pickup gives 1 row without     *)
(* invoice option, in the order of the submission's pickups.  (A pass that *)
(* a missing column ends returns no table: C16.)                           *)
(***************************************************************************)
C14_UploadShape ==
    pc # "schema_error" =>
        \A k \in 1..Len(matched_rows) :
            LET m == matched_rows[k]
                i == m.idx
                f == forms_df[i]
                n == Len(m.pickups)
                inv == InvoiceRows(i)
            IN  /\ Cardinality(MatchedOf(i)) = 1
                /\ Len(inv) = 3
                /\ \A a, b \in 1..3 : inv[a].invoice_option = inv[b].invoice_option => a = b
                /\ \A a \in 1..3 :
                       AddressFields(inv[a]) =
                           BlockFields(IF m.branch = "unified" THEN f.addr ELSE f.billing)
                /\ m.branch = "unified" => Len(UploadsOf(i)) = 3
                /\ m.branch = "split" =>
                       /\ Len(UploadsOf(i)) = n + 4
                       /\ n = Len(PickupAddrs(f))
                       /\ Len(PlainRows(i, "13")) = 1
                       /\ AddressFields(PlainRows(i, "13")[1]) = BlockFields(f.delivery)
                       /\ Len(PlainRows(i, "02")) = n
                       /\ \A p \in 1..n :
                              AddressFields(PlainRows(i, "02")[p]) = BlockFields(f.pickups[p])

\* a matched split submission with two pickups of different addresses, and its six rows
C14_Witness ==
    /\ pc = "done"
    /\ \E k \in 1..Len(matched_rows) :
          LET i == matched_rows[k].idx
          IN  /\ matched_rows[k].branch = "split"
              /\ Len(UploadsOf(i)) = 6
              /\ BlockFields(forms_df[i].pickups[1]) # BlockFields(forms_df[i].pickups[2])

(***************************************************************************)
(* C16  Schema errors fail fast: when a missing column ends the pass, no   *)
(* submission has been reconciled - no iteration has run and there is no   *)
(* matched, unmatched or upload row.                                       *)
(***************************************************************************)
C16_SchemaFailFast ==
    pc = "schema_error" =>
        /\ iteration.row = 0
        /\ matched_rows = <<>> /\ unmatched_rows = <<>> /\ upload_template_rows = <<>>

(***************************************************************************)
(* C18  The system-held fields of an upload row (display name, postal      *)
(* code) are those of the system row matched for that row's address: for a *)
(* split submission, of the matched 03 row on the billing rows, of the     *)
(* matched 13 row on the delivery row, of the matched 02 row on each       *)
(* pickup row.                                                             *)
(***************************************************************************)
C18_SystemFieldsOfMatch ==
    pc # "schema_error" =>
        \A k \in 1..Len(matched_rows) :
            LET m == matched_rows[k]
                i == m.idx
            IN  m.branch = "split" =>
                    /\ \A a \in 1..Len(InvoiceRows(i)) :
                           /\ InvoiceRows(i)[a].AC_Name = ups_df[m.billing].name
                           /\ InvoiceRows(i)[a].Postal_Code = ups_df[m.billing].postal
                    /\ \A a \in 1..Len(PlainRows(i, "13")) :
                           /\ PlainRows(i, "13")[a].AC_Name = ups_df[m.delivery].name
                           /\ PlainRows(i, "13")[a].Postal_Code = ups_df[m.delivery].postal
                    /\ \A p \in 1..Len(PlainRows(i, "02")) :
                           /\ PlainRows(i, "02")[p].AC_Name = ups_df[m.pickups[p]].name
                           /\ PlainRows(i, "02")[p].Postal_Code = ups_df[m.pickups[p]].postal

(***************************************************************************)
(* C19  A reconciliation pass leaves both input tables as they were: no    *)
(* step of process_files changes a column or a cell of the submission      *)
(* table or of the system-of-record table.                                 *)
(***************************************************************************)
C19_InputsUnchanged == [][forms_df' = forms_df /\ ups_df' = ups_df]_vars

\* a pickup block with something in one of its address lines
Filled(b) == \E c \in {b.l1, b.l2, b.l3} : IsStr(c) /\ Strip(c.str) # <<>>

FilledBlocks(form_row) == {p \in 1..3 : Filled(form_row.pickups[p])}

(***************************************************************************)
(* C20  A split submission of a present account whose declared pickup      *)
(* count is a number other than the number of non-empty pickup blocks is   *)
(* never matched, and is unmatched with a reason of its own for that.      *)
(***************************************************************************)
C20_PickupBlocksAgree ==
    \A i \in Handled :
        (/\ SplitPresent(i)
         /\ IntOf(forms_df[i].count).ok
         /\ IntOf(forms_df[i].count).val # Cardinality(FilledBlocks(forms_df[i])))
        => /\ MatchedOf(i) = {}
           /\ pc = "done" => "pickup_blocks_mismatch" \in ReasonsOf(i)

\* the submissions with a matched row, and those with at least one unmatched row
MatchedSet == {matched_rows[k].idx : k \in 1..Len(matched_rows)}

UnmatchedSet == {unmatched_rows[k].idx : k \in 1..Len(unmatched_rows)}

(***************************************************************************)
(* C21  In every completed pass the submissions with a matched row and the *)
(* submissions with at least one unmatched row are disjoint and together   *)
(* are all the submissions.                                                *)
(***************************************************************************)
C21_MatchedXorUnmatched ==
    pc = "done" =>
        /\ MatchedSet \cap UnmatchedSet = {}
        /\ MatchedSet \cup UnmatchedSet = 1..Len(forms_df)

\* a completed pass whose closing loop passed over a matched submission
C21_Witness ==
    /\ pc = "done"
    /\ MatchedSet = {1}
    /\ UnmatchedSet = {}
    /\ processed_form_indices = {1}

(***************************************************************************)
(* C22  Upload rows exist only for matched submissions: at every point of  *)
(* the pass every upload row belongs to a submission with a matched row,   *)
(* and a submission with an unmatched row has no upload row.               *)
(***************************************************************************)
C22_UploadOnlyForMatched ==
    \A k \in 1..Len(upload_template_rows) :
        /\ upload_template_rows[k].idx \in MatchedSet
        /\ upload_template_rows[k].idx \notin UnmatchedSet

\* the upload rows of a matched split submission after the closing loop has run
C22_Witness ==
    /\ pc = "done"
    /\ \E k \in 1..Len(matched_rows) :
          matched_rows[k].branch = "split" /\ Len(UploadsOf(matched_rows[k].idx)) >= 5

\* system row u has the account of submission i and the type code
OfRole(i, u, code) ==
    /\ u \in 1..Len(ups_df)
    /\ ups_df[u].acc_norm = forms_df[i].acc_norm
    /\ ups_df[u].type = code

(***************************************************************************)
(* C23  Role and account isolation: every system row recorded as a match   *)
(* has the normalized account of the submission and the type code of the   *)
(* role - 01 for the address of a 'yes' submission, 03 for billing, 13 for *)
(* delivery, 02 for each pickup of a split submission.                     *)
(***************************************************************************)
C23_RoleIsolation ==
    \A k \in 1..Len(matched_rows) :
        LET m == matched_rows[k]
        IN  IF m.branch = "unified"
            THEN IsYes(forms_df[m.idx]) /\ OfRole(m.idx, m.ups_row, T01)
            ELSE /\ ~IsYes(forms_df[m.idx])
                 /\ OfRole(m.idx, m.billing, T03)
                 /\ OfRole(m.idx, m.delivery, T13)
                 /\ \A p \in 1..Len(m.pickups) : OfRole(m.idx, m.pickups[p], T02)

\* a match made although an earlier row with the same address was passed over: a row of
\* another account for a 'yes' submission, or a row of type 01 for a split submission
C23_Witness ==
    /\ pc = "done"
    /\ \E k \in 1..Len(matched_rows) :
          LET m == matched_rows[k]
              f == forms_df[m.idx]
          IN  \/ /\ m.branch = "unified"
                 /\ \E u \in 1..(m.ups_row - 1) :
                        /\ ups_df[u].acc_norm # f.acc_norm
                        /\ ups_df[u].type = T01
                        /\ IsMatch(f.addr, u)
              \/ /\ m.branch = "split"
                 /\ Len(m.pickups) >= 1
                 /\ \E u \in 1..(m.billing - 1) : ups_df[u].type = T01 /\ IsMatch(f.billing, u)

(***************************************************************************)
(* C24  In a matched split submission with n >= 2 pickups the submitted    *)
(* pickups are paired with n pairwise distinct 02 rows of the account: no  *)
(* 02 row is the match of two pickups and none is left unpaired.           *)
(***************************************************************************)
C24_PickupBijection ==
    \A k \in 1..Len(matched_rows) :
        LET m == matched_rows[k]
        IN  (m.branch = "split" /\ Len(m.pickups) >= 2) =>
                /\ \A p, q \in 1..Len(m.pickups) : m.pickups[p] = m.pickups[q] => p = q
                /\ SetOfSeq(m.pickups) = Candidates(m.idx, T02)

(***************************************************************************)
(* The normalizer on its own: clean_address applied once, then again       *)
(***************************************************************************)

RawChars == {"a", "A", "a^", "^", " ", "tab", ",", "-"}

StringsOver(chars, n) == UNION {[1..k -> chars] : k \in 0..n}

RawInputs == {Str(s) : s \in StringsOver(RawChars, MaxRawLen)} \cup {NaN, IntCell(7)}

InitClean ==
    /\ normalizer \in {[pc |-> "start", x |-> x, once |-> <<>>, twice |-> <<>>] : x \in RawInputs}
    /\ scorer = ScorerIdle
    /\ PassIdle

CleanOnce ==
    /\ normalizer.pc = "start"
    /\ normalizer' = [normalizer EXCEPT !.pc = "once", !.once = clean_address(normalizer.x)]
    /\ UNCHANGED <<scorer, passVars>>

CleanTwice ==
    /\ normalizer.pc = "once"
    /\ normalizer' = [normalizer EXCEPT !.pc = "twice",
                                        !.twice = clean_address(Str(normalizer.once))]
    /\ UNCHANGED <<scorer, passVars>>

NextClean == CleanOnce \/ CleanTwice

SpecClean == InitClean /\ [][NextClean]_vars

(***************************************************************************)
(* C10  Idempotence of normalization: clean_address(clean_address(x)) =    *)
(* clean_address(x) for every string x, and a non-string normalizes to the *)
(* empty string.                                                           *)
(***************************************************************************)
C10_Idempotent ==
    /\ normalizer.pc = "twice" => normalizer.twice = normalizer.once
    /\ (normalizer.pc \in {"once", "twice"} /\ ~IsStr(normalizer.x)) => normalizer.once = <<>>

\* upper case, a tone mark, punctuation and spaces around a comma, cleaned twice
C10_Witness ==
    /\ normalizer.pc = "twice"
    /\ normalizer.x = Str(<<"A", " ", ",", "a^">>)
    /\ normalizer.once = <<"a", ",", "a">>

(***************************************************************************)
(* The scorer on its own: one pair of addresses under two thresholds       *)
(***************************************************************************)

AddrChars == {"a", "b", " ", ","}

Thresholds == {50, DefaultThreshold, 90}

AddrInputs == {Str(s) : s \in StringsOver(AddrChars, MaxAddrLen)}

InitMatch ==
    /\ scorer \in {[pc |-> "start", a |-> a, b |-> b, t |-> t, r |-> FALSE,
                    t0 |-> t, r0 |-> FALSE] :
                        a \in AddrInputs, b \in AddrInputs, t \in Thresholds}
    /\ normalizer = NormalizerIdle
    /\ PassIdle

\* is_match(a, b, t)
Match ==
    /\ scorer.pc = "start"
    /\ scorer' = [scorer EXCEPT !.pc = "matched",
                                !.r = flexible_address_match(scorer.a, scorer.b, scorer.t)]
    /\ UNCHANGED <<normalizer, passVars>>

\* is_match(a, b, t2) with a lower threshold t2; (t0, r0) keeps the first call
MatchLower ==
    /\ scorer.pc = "matched"
    /\ \E t2 \in Thresholds :
          /\ t2 < scorer.t
          /\ scorer' = [scorer EXCEPT !.pc = "lowered", !.t0 = scorer.t, !.r0 = scorer.r,
                                      !.t = t2,
                                      !.r = flexible_address_match(scorer.a, scorer.b, t2)]
    /\ UNCHANGED <<normalizer, passVars>>

NextMatch == Match \/ MatchLower

SpecMatch == InitMatch /\ [][NextMatch]_vars

(***************************************************************************)
(* C9  Threshold monotonicity: if flexible_address_match(a, b, t1) is true *)
(* and t2 < t1 then flexible_address_match(a, b, t2) is true.              *)
(***************************************************************************)
C9_ThresholdMonotone ==
    scorer.pc = "lowered" => (scorer.t < scorer.t0 /\ (scorer.r0 => scorer.r))

\* a pair that matches at 0.65 only by its character ratio: it does not match at 0.9
C9_Witness ==
    /\ scorer.pc = "lowered"
    /\ scorer.t0 = DefaultThreshold
    /\ scorer.r0
    /\ ~flexible_address_match(scorer.a, scorer.b, 90)

\* every comma component of the cleaned a is a comma component of the cleaned b
ComponentsAmong(a, b) ==
    LET pa == Parts(clean_address(a))
        pb == Parts(clean_address(b))
    IN  /\ pa # <<>>
        /\ \A i \in 1..Len(pa) : \E j \in 1..Len(pb) : pa[i] = pb[j]

(***************************************************************************)
(* C15  Robustness to re-segmentation: if the cleaned first address is a   *)
(* sequence of comma components each of which equals a comma component of  *)
(* the cleaned second address (which may have further or empty             *)
(* components), flexible_address_match is true at every threshold.         *)
(***************************************************************************)
C15_Resegmentation ==
    (scorer.pc = "matched" /\ ComponentsAmong(scorer.a, scorer.b)) => scorer.r

\* the same two components in another order: no containment, character ratio 1/3
C15_Witness ==
    /\ scorer.pc = "matched"
    /\ scorer.a = Str(<<"b", ",", "a">>)
    /\ scorer.b = Str(<<"a", ",", "b">>)
    /\ scorer.t = 90
    /\ scorer.r

\* one of the signals other than containment holds for the two cleaned strings
OtherSignal(a1, a2, threshold) ==
    LET p1 == Parts(a1)
        p2 == Parts(a2)
        c1 == IF p1 # <<>> THEN JoinSpace(p1) ELSE a1
        c2 == IF p2 # <<>> THEN JoinSpace(p2) ELSE a2
    IN  \/ a1 = a2
        \/ p1 # <<>> /\ p2 # <<>> /\ (AllPartsMatch(p1, p2) \/ AllPartsMatch(p2, p1))
        \/ RatioAtLeast(c1, c2, threshold)
        \/ /\ Words(c1) # {} /\ Words(c2) # {}
           /\ \/ Words(c1) \subseteq Words(c2)
              \/ Words(c2) \subseteq Words(c1)
              \/ 100 * Cardinality(Words(c1) \cap Words(c2))
                    >= WordOverlapPct * Min2(Cardinality(Words(c1)), Cardinality(Words(c2)))

(***************************************************************************)
(* C17  Containment needs a minimum length: when one of the two cleaned    *)
(* strings is a single character (a letter, or the bare ',' of an address  *)
(* whose lines are all empty) and no signal other than containment holds,  *)
(* flexible_address_match is false.                                        *)
(***************************************************************************)
C17_ContainmentMinLength ==
    scorer.pc = "matched" =>
        LET a1 == clean_address(scorer.a)
            a2 == clean_address(scorer.b)
        IN  (/\ a1 # <<>> /\ a2 # <<>>
             /\ Len(a1) = 1 \/ Len(a2) = 1
             /\ ~OtherSignal(a1, a2, scorer.t))
            => ~scorer.r

====
